---------------------------- MODULE Spec2Model ----------------------------
(***************************************************************************)
(* httpfly: a minimal HTTP router (src/httpfly.go, the adaptive variant    *)
(* with per-route handling modes and latency statistics; src/unnamed/      *)
(* part_000 is the same router without modes and statistics).              *)
(*                                                                         *)
(* Strings are sequences of one-character strings, so that the scanner     *)
(* paramExtractAlg can be modelled character by character.                 *)
(***************************************************************************)
EXTENDS Integers, Sequences, FiniteSets, TLC

(***************************************************************************)
(* Bounds of the model.                                                    *)
(***************************************************************************)
\* longest enumerated string handed to extractParams
MaxLen == 4
\* requests served in one run of the statistics specification
MaxRequests == 3
\* requests served in one run of the routing specification
MaxRouteRequests == 1
\* requests served in one run of the specification that starts at the reset
MaxLateRequests == 3
\* requests served in one run of the specification under fair scheduling
MaxFairRequests == 6
\* routes registered in one run of the routing specification
MaxRoutes == 2
\* middlewares registered in one run
MaxMiddlewares == 2

(***************************************************************************)
(* Go values.                                                              *)
(***************************************************************************)
\* a nil error
ErrNil == "nil"
\* errors.New("invalid URL params")
ErrInvalidParams == "invalid URL params"

\* the map a Go function returns: nil, or a map with entries kv
NilMap == [isNil |-> TRUE, kv |-> <<>>]
MakeMap(f) == [isNil |-> FALSE, kv |-> f]

(***************************************************************************)
(* paramExtractAlg: one pass over the input.  '{' empties the buffer, '}'  *)
(* appends the buffer to the result (and leaves the buffer as it is),      *)
(* every other character is appended to the buffer.                        *)
(***************************************************************************)
RECURSIVE paramScan(_, _, _, _)
paramScan(input, i, res, buildStr) ==
    IF i > Len(input) THEN res
    ELSE LET c == input[i] IN
         IF c = "{" THEN paramScan(input, i + 1, res, <<>>)
         ELSE IF c = "}" THEN paramScan(input, i + 1, Append(res, buildStr), buildStr)
         ELSE paramScan(input, i + 1, res, Append(buildStr, c))

paramExtractAlg(input) == paramScan(input, 1, <<>>, <<>>)

(***************************************************************************)
(* extractParams: scan both strings, fail on a length mismatch, otherwise  *)
(* result[lp[i]] = p[i] for i ascending (a later duplicate key overwrites).*)
(***************************************************************************)
LastIndexOf(lp, k) == CHOOSE i \in 1..Len(lp) : lp[i] = k /\ \A j \in (i+1)..Len(lp) : lp[j] # k

\* the mutation: the length check only rejects a path with fewer tokens
extractParams_onlyFewer(path, locPath) ==
    LET p  == paramExtractAlg(path)
        lp == paramExtractAlg(locPath)
    IN  IF Len(p) < Len(lp)
        THEN [params |-> NilMap, err |-> ErrInvalidParams]
        ELSE [params |-> MakeMap([k \in {lp[i] : i \in 1..Len(lp)} |-> p[LastIndexOf(lp, k)]]),
              err |-> ErrNil]

extractParams(path, locPath) ==
    LET p  == paramExtractAlg(path)
        lp == paramExtractAlg(locPath)
    IN  IF Len(p) # Len(lp)
        THEN [params |-> NilMap, err |-> ErrInvalidParams]
        ELSE [params |-> MakeMap([k \in {lp[i] : i \in 1..Len(p)} |-> p[LastIndexOf(lp, k)]]),
              err |-> ErrNil]


(***************************************************************************)
(* Constants of the program.                                               *)
(***************************************************************************)
RoutePrefix == <<"/", "a", "p", "i">>

Sync  == FALSE
Async == TRUE

UseAuth == TRUE
NoAuth  == FALSE

get    == "GET"
post   == "POST"
put    == "PUT"
delete == "DELETE"

StatusNotFound   == 404
StatusBadRequest == 400

\* startOptimizeAt as the program starts
DefaultStartOptimizeAt == 1000

\* int64 arithmetic, scaled: the largest value of the counters' type.  The
\* program's 2^63 - 1 is out of a model checker's reach; the model keeps the
\* order  DefaultStartOptimizeAt < resetAt < MaxInt64  of the program.
MaxInt64 == 2047
\* the program's 9223372036054775807 (8 * 10^11 below 2^63 - 1), scaled alike
resetAt == 2039
\* the largest time.Since(t).Microseconds(): a Duration counts nanoseconds in
\* an int64, so it is at most MaxInt64 / 1000 in the program.  Scaled, it keeps
\* what that bound implies in the program: the sum of MaxElapsed / n over
\* n = 1..resetAt stays below resetAt, so avarageResMs never gets to resetAt
\* and never overflows; only totalRequest can reach resetAt.
MaxElapsed == 30

\* x + y and x + 1 in int64: Go wraps around on overflow
Wrap64(x) == IF x > MaxInt64 THEN x - 2 * (MaxInt64 + 1) ELSE x

(***************************************************************************)
(* The environment: what callers register and what clients send.           *)
(***************************************************************************)
UsersIdTemplate == <<"/", "u", "s", "e", "r", "s", "/", "{", "i", "d", "}">>
PingTemplate    == <<"/", "p", "i", "n", "g">>
Users42Path     == RoutePrefix \o <<"/", "u", "s", "e", "r", "s", "/", "4", "2">>

Request(m, p, b) == [Method |-> m, Path |-> p, Body |-> b]

\* goroutines of the HTTP server running handle
Procs           == {1, 2}
MiddlewareFuncs == {"m1", "m2"}

\* the routing specification: every Map function with two registrations
\* (mode, path, auth, f), requests of two methods and three paths
RouteInputs     == {<<Sync, UsersIdTemplate, NoAuth, "h1">>, <<Async, PingTemplate, UseAuth, "h2">>}
RouteRequests   == {Request(m, p, <<"x">>) : m \in {get, delete},
                                             p \in {RoutePrefix \o UsersIdTemplate, RoutePrefix \o PingTemplate, Users42Path}}
RouteElapsed    == {10}

\* the statistics specification: one GET route of either mode, two goroutines;
\* the thresholds are those a run of MaxRequests requests can exceed
Thresholds      == 0..(MaxRequests - 2)
StatsRequests   == {Request(get, RoutePrefix \o PingTemplate, <<>>)}
\* the microseconds a request can be observed to have taken
ElapsedValues   == {el \in {0, 10, 20, 30} : el <= MaxElapsed}

VARIABLES
    routes,             \* var routes []*RouteInfo
    middlewares,        \* var middlewares []MiddlewareFunc
    started,            \* StartHTTPServer has installed handle
    avarageResMs,       \* var avarageResMs int64
    totalRequest,       \* var totalRequest int64
    startOptimizeAt,    \* var startOptimizeAt int64
    totalRequestMutex,  \* holder of totalRequestMutex, 0 when unlocked
    avarageResMsMutex,  \* holder of the average's mutex, 0 when unlocked
    served,             \* calls of handle so far
    detached,           \* async handlers still running whose request's goroutine serves a later request
    procs,              \* per goroutine: the locals of its call of handle
    lats,               \* history: the elapsed times added up since the counters were last zero
    xpPath, xpLocPath,  \* the arguments of a direct call of extractParams
    xpOut, xpDone       \* and what it returned

vars == <<routes, middlewares, started, avarageResMs, totalRequest, startOptimizeAt,
          totalRequestMutex, avarageResMsMutex, served, detached, procs, lats,
          xpPath, xpLocPath, xpOut, xpDone>>

routerVars == <<routes, middlewares, started, avarageResMs, totalRequest, startOptimizeAt,
                totalRequestMutex, avarageResMsMutex, served, detached, procs, lats>>
xpVars == <<xpPath, xpLocPath, xpOut, xpDone>>

\* &RequestBody{}: every field zero
EmptyRequestBody == [JsonData |-> <<>>, Params |-> NilMap, Claims |-> NilMap]
NoRequest  == [Method |-> "", Path |-> <<>>, Body |-> <<>>]
NoResponse == [status |-> 0, body |-> <<>>]

\* a goroutine that is not in handle
IdleProc == [pc |-> "idle", req |-> NoRequest, v |-> 0, nr |-> 0, nm |-> 0,
             rqbody |-> EmptyRequestBody, mwDone |-> <<>>, mode |-> Sync, invoked |-> <<>>,
             handler |-> "none", kind |-> "none", elapsed |-> 0, resp |-> NoResponse]

RouterInit ==
    /\ routes = <<>>
    /\ middlewares = <<>>
    /\ started = FALSE
    /\ avarageResMs = 0
    /\ totalRequest = 0
    /\ startOptimizeAt = DefaultStartOptimizeAt
    /\ totalRequestMutex = 0
    /\ avarageResMsMutex = 0
    /\ served = 0
    /\ detached = 0
    /\ procs = [g \in Procs |-> IdleProc]
    /\ lats = <<>>

XpIdle ==
    /\ xpPath = <<>>
    /\ xpLocPath = <<>>
    /\ xpOut = [params |-> NilMap, err |-> ErrNil]
    /\ xpDone = FALSE

Init == RouterInit /\ XpIdle

(***************************************************************************)
(* Registration.                                                           *)
(***************************************************************************)
AddMiddleware(f) ==
    /\ middlewares' = Append(middlewares, f)
    /\ UNCHANGED <<routes, started, avarageResMs, totalRequest, startOptimizeAt,
                   totalRequestMutex, avarageResMsMutex, served, detached, procs, lats, xpVars>>

RouteInfo(mode, endpoint, method, auth, f) ==
    [Mode |-> mode, Endpoint |-> endpoint, Method |-> method, AuthRequired |-> auth, HandlerF |-> f]

MapRoute(r) ==
    /\ routes' = Append(routes, r)
    /\ UNCHANGED <<middlewares, started, avarageResMs, totalRequest, startOptimizeAt,
                   totalRequestMutex, avarageResMsMutex, served, detached, procs, lats, xpVars>>

MapGet(mode, path, auth, f)    == MapRoute(RouteInfo(mode, RoutePrefix \o path, get, auth, f))
MapPost(mode, path, auth, f)   == MapRoute(RouteInfo(mode, RoutePrefix \o path, post, auth, f))
MapPut(mode, path, auth, f)    == MapRoute(RouteInfo(mode, RoutePrefix \o path, put, auth, f))
MapDelete(mode, path, auth, f) == MapRoute(RouteInfo(mode, RoutePrefix \o path, delete, auth, f))

SetOptimizationThreshold(threshold) ==
    /\ startOptimizeAt' = threshold
    /\ UNCHANGED <<routes, middlewares, started, avarageResMs, totalRequest,
                   totalRequestMutex, avarageResMsMutex, served, detached, procs, lats, xpVars>>

StartHTTPServer ==
    /\ ~started
    /\ started' = TRUE
    /\ UNCHANGED <<routes, middlewares, avarageResMs, totalRequest, startOptimizeAt,
                   totalRequestMutex, avarageResMsMutex, served, detached, procs, lats, xpVars>>

(***************************************************************************)
(* handle, lines 104-124: the scan of the route table, the method check,   *)
(* extractParams and the read of the body.                                 *)
(***************************************************************************)
\* the mutation: the scan stops at the first route of the request's method,
\* whatever its endpoint
RouteFor_anyPath(rts, req) ==
    IF \E i \in 1..Len(rts) : rts[i].Method = req.Method
    THEN CHOOSE i \in 1..Len(rts) :
            /\ rts[i].Method = req.Method
            /\ \A j \in 1..(i-1) : rts[j].Method # req.Method
    ELSE 0

\* the mutation: the scan goes on past a route whose method differs
RouteFor_fallthrough(rts, req) ==
    IF \E i \in 1..Len(rts) : rts[i].Endpoint = req.Path /\ rts[i].Method = req.Method
    THEN CHOOSE i \in 1..Len(rts) :
            /\ rts[i].Endpoint = req.Path /\ rts[i].Method = req.Method
            /\ \A j \in 1..(i-1) : ~(rts[j].Endpoint = req.Path /\ rts[j].Method = req.Method)
    ELSE IF \E i \in 1..Len(rts) : rts[i].Endpoint = req.Path
    THEN CHOOSE i \in 1..Len(rts) :
            /\ rts[i].Endpoint = req.Path
            /\ \A j \in 1..(i-1) : rts[j].Endpoint # req.Path
    ELSE 0

\* the route at which `for _, v := range routes` stops: the first one whose
\* Endpoint equals the request path (0: the loop runs to its end)
RouteFor(rts, req) ==
    IF \E i \in 1..Len(rts) : rts[i].Endpoint = req.Path
    THEN CHOOSE i \in 1..Len(rts) :
            /\ rts[i].Endpoint = req.Path
            /\ \A j \in 1..(i-1) : rts[j].Endpoint # req.Path
    ELSE 0

\* resw.WriteHeader(http.StatusNotFound) after the loop
NotFoundResponse == [status |-> StatusNotFound, body |-> <<>>]
\* the mutation: a method mismatch is answered 405 Method Not Allowed
MethodMismatchResponse_405 == [status |-> 405, body |-> <<>>]
\* resw.WriteHeader(http.StatusNotFound) on a method mismatch
MethodMismatchResponse == [status |-> StatusNotFound, body |-> <<>>]
\* resw.WriteHeader(http.StatusBadRequest); resw.Write([]byte(err.Error()))
BadRequestResponse(err) == [status |-> StatusBadRequest, body |-> err]

\* req.Body.Read(buf): fills at most len(buf) bytes of buf
BodyRead(buf, body) == [i \in 1..Len(buf) |-> IF i <= Len(body) THEN body[i] ELSE buf[i]]

\* the mutation: the `return` after the 404 of a method mismatch is missing
HandleEntry_noReturn(rts, mws, req) ==
    LET i == RouteFor(rts, req)
        fresh == [IdleProc EXCEPT !.pc = "done", !.req = req, !.v = i, !.nr = Len(rts)]
    IN  IF i = 0
        THEN [fresh EXCEPT !.resp = NotFoundResponse]
        ELSE [fresh EXCEPT !.pc = "mw",
                           !.nm = Len(mws),
                           !.resp = IF req.Method # rts[i].Method
                                    THEN MethodMismatchResponse ELSE NoResponse,
                           !.rqbody = [JsonData |-> <<>>,
                                       Params   |-> extractParams(req.Path, rts[i].Endpoint).params,
                                       Claims   |-> EmptyRequestBody.Claims]]

\* the locals of handle when it reaches the middleware loop, or returns before it
HandleEntry(rts, mws, req) ==
    LET i == RouteFor(rts, req)
        fresh == [IdleProc EXCEPT !.pc = "done", !.req = req, !.v = i, !.nr = Len(rts)]
    IN  IF i = 0
        THEN [fresh EXCEPT !.resp = NotFoundResponse]
        ELSE IF req.Method # rts[i].Method
        THEN [fresh EXCEPT !.resp = MethodMismatchResponse]
        ELSE LET x == extractParams(req.Path, rts[i].Endpoint) IN
             IF x.err # ErrNil
             THEN [fresh EXCEPT !.resp = BadRequestResponse(x.err)]
             ELSE [fresh EXCEPT !.pc = "mw",
                                !.nm = Len(mws),
                                !.rqbody = [JsonData |-> BodyRead(EmptyRequestBody.JsonData, req.Body),
                                            Params   |-> x.params,
                                            Claims   |-> EmptyRequestBody.Claims]]

\* the server calls handle on goroutine g (at most max calls in a run)
Handle(g, req, max) ==
    /\ started
    /\ procs[g].pc = "idle"
    /\ served < max
    /\ served' = served + 1
    /\ procs' = [procs EXCEPT ![g] = HandleEntry(routes, middlewares, req)]
    /\ UNCHANGED <<routes, middlewares, started, avarageResMs, totalRequest, startOptimizeAt,
                   totalRequestMutex, avarageResMsMutex, detached, lats, xpVars>>

\* handle has returned: its locals are gone; a handler started with `go` runs on
Return(g) ==
    /\ procs[g].pc = "done"
    /\ procs' = [procs EXCEPT ![g] = IdleProc]
    /\ detached' = IF procs[g].kind = "async" /\ procs[g].handler = "running"
                   THEN detached + 1 ELSE detached
    /\ UNCHANGED <<routes, middlewares, started, avarageResMs, totalRequest, startOptimizeAt,
                   totalRequestMutex, avarageResMsMutex, served, lats, xpVars>>

(***************************************************************************)
(* handle, lines 126-136: the middleware loop and the handler.             *)
(***************************************************************************)
\* the mutation: the loop calls the first middleware every time
NextMiddleware_first(mws, done) == mws[1]
\* the middleware the loop calls next
NextMiddleware(mws, done) == mws[Len(done) + 1]

RunMiddleware(g) ==
    /\ procs[g].pc = "mw"
    /\ Len(procs[g].mwDone) < procs[g].nm
    /\ procs' = [procs EXCEPT ![g].mwDone = Append(@, NextMiddleware(middlewares, @))]
    /\ UNCHANGED <<routes, middlewares, started, avarageResMs, totalRequest, startOptimizeAt,
                   totalRequestMutex, avarageResMsMutex, served, detached, lats, xpVars>>

\* the mutation: handle waits for the handler whatever the mode
AfterCall_wait(mode) == "handler"
\* lines 132-136: where handle is once the handler is started: past it when
\* it was started with `go`, in it when it was called inline
AfterCall(mode) == IF mode = Async THEN "lockTotal" ELSE "handler"

\* t := time.Now() and the read of v.Mode in `if v.Mode == Async` (line 132):
\* the read takes no lock, so other goroutines run between it and the call
ReadMode(g) ==
    /\ procs[g].pc = "mw"
    /\ Len(procs[g].mwDone) = procs[g].nm
    /\ procs' = [procs EXCEPT ![g].mode = routes[procs[g].v].Mode, ![g].pc = "call"]
    /\ UNCHANGED <<routes, middlewares, started, avarageResMs, totalRequest, startOptimizeAt,
                   totalRequestMutex, avarageResMsMutex, served, detached, lats, xpVars>>

\* go v.HandlerF(rqbody) or v.HandlerF(rqbody), as the mode read decides
CallHandler(g) ==
    /\ procs[g].pc = "call"
    /\ procs' = [procs EXCEPT ![g].invoked = Append(@, procs[g].v),
                              ![g].handler = "running",
                              ![g].kind = IF procs[g].mode = Async THEN "async" ELSE "sync",
                              ![g].pc = AfterCall(procs[g].mode)]
    /\ UNCHANGED <<routes, middlewares, started, avarageResMs, totalRequest, startOptimizeAt,
                   totalRequestMutex, avarageResMsMutex, served, detached, lats, xpVars>>

\* the inline call v.HandlerF(rqbody) returns
HandlerReturn(g) ==
    /\ procs[g].pc = "handler"
    /\ procs' = [procs EXCEPT ![g].handler = "returned", ![g].pc = "lockTotal"]
    /\ UNCHANGED <<routes, middlewares, started, avarageResMs, totalRequest, startOptimizeAt,
                   totalRequestMutex, avarageResMsMutex, served, detached, lats, xpVars>>

\* the goroutine of `go v.HandlerF(rqbody)` ends
AsyncHandlerReturn(g) ==
    /\ procs[g].kind = "async"
    /\ procs[g].handler = "running"
    /\ procs' = [procs EXCEPT ![g].handler = "returned"]
    /\ UNCHANGED <<routes, middlewares, started, avarageResMs, totalRequest, startOptimizeAt,
                   totalRequestMutex, avarageResMsMutex, served, detached, lats, xpVars>>

DetachedHandlerReturn ==
    /\ detached > 0
    /\ detached' = detached - 1
    /\ UNCHANGED <<routes, middlewares, started, avarageResMs, totalRequest, startOptimizeAt,
                   totalRequestMutex, avarageResMsMutex, served, procs, lats, xpVars>>

(***************************************************************************)
(* handle, lines 138-159: the statistics section.                          *)
(***************************************************************************)
\* the mutation: the section is entered without taking the mutexes
LockTotalRequest_skip(g) ==
    /\ procs[g].pc = "lockTotal"
    /\ procs' = [procs EXCEPT ![g].pc = "stats"]
    /\ UNCHANGED <<routes, middlewares, started, avarageResMs, totalRequest, startOptimizeAt,
                   totalRequestMutex, avarageResMsMutex, served, detached, lats, xpVars>>

LockTotalRequest(g) ==
    /\ procs[g].pc = "lockTotal"
    /\ totalRequestMutex = 0
    /\ totalRequestMutex' = g
    /\ procs' = [procs EXCEPT ![g].pc = "lockAverage"]
    /\ UNCHANGED <<routes, middlewares, started, avarageResMs, totalRequest, startOptimizeAt,
                   avarageResMsMutex, served, detached, lats, xpVars>>

LockAverageResMs(g) ==
    /\ procs[g].pc = "lockAverage"
    /\ avarageResMsMutex = 0
    /\ avarageResMsMutex' = g
    /\ procs' = [procs EXCEPT ![g].pc = "stats"]
    /\ UNCHANGED <<routes, middlewares, started, avarageResMs, totalRequest, startOptimizeAt,
                   totalRequestMutex, served, detached, lats, xpVars>>

\* a / b of Go: the quotient truncated toward zero
GoDiv(a, b) ==
    LET abs(x) == IF x < 0 THEN -x ELSE x
    IN  IF (a >= 0) = (b > 0) THEN abs(a) \div abs(b) ELSE -(abs(a) \div abs(b))

\* the mutation: the counters are never reset
ResetCheck_never(n, avg) == [n |-> n, avg |-> avg]
\* lines 144-147: both counters restart when either equals resetAt
ResetCheck(n, avg) ==
    IF n = resetAt \/ avg = resetAt THEN [n |-> 0, avg |-> 0] ELSE [n |-> n, avg |-> avg]

\* the mutation: one more request has to be counted before a promotion
Promotes_late(n, avg, el, mode, threshold) == n > threshold + 1 /\ el > avg /\ mode # Async
\* line 149: the condition under which the route becomes Async
Promotes(n, avg, el, mode, threshold) == n > threshold /\ el > avg /\ mode # Async

\* the mutation: the mode is assigned the outcome of the check
ModeAfter_assign(n, avg, el, mode, threshold) ==
    IF Promotes(n, avg, el, mode, threshold) THEN Async ELSE Sync
\* lines 149-152: the route's mode after the check
ModeAfter(n, avg, el, mode, threshold) ==
    IF Promotes(n, avg, el, mode, threshold) THEN Async ELSE mode

\* the mutation: the average is kept as the true mean
Accumulate_mean(n, avg, el) ==
    LET n1 == Wrap64(n + 1)
    IN  [n |-> n1, avg |-> Wrap64(GoDiv(avg * n + el, n1))]
\* lines 154-155: totalRequest++; avarageResMs += elapsed / totalRequest
Accumulate(n, avg, el) ==
    LET n1 == Wrap64(n + 1)
    IN  [n |-> n1, avg |-> Wrap64(avg + GoDiv(el, n1))]

\* lines 142-155, with elapsed = time.Since(t).Microseconds()
UpdateStats(g, el) ==
    /\ procs[g].pc = "stats"
    /\ LET r == ResetCheck(totalRequest, avarageResMs)
           i == procs[g].v
           a == Accumulate(r.n, r.avg, el)
       IN  /\ routes' = [routes EXCEPT ![i].Mode = ModeAfter(r.n, r.avg, el, @, startOptimizeAt)]
           /\ totalRequest' = a.n
           /\ avarageResMs' = a.avg
           /\ lats' = IF r.n = 0 /\ r.avg = 0 THEN <<el>> ELSE Append(lats, el)
    /\ procs' = [procs EXCEPT ![g].elapsed = el, ![g].pc = "unlock"]
    /\ UNCHANGED <<middlewares, started, startOptimizeAt,
                   totalRequestMutex, avarageResMsMutex, served, detached, xpVars>>

\* the mutation: only the average's mutex is released
Unlock_keepTotal(g) ==
    /\ procs[g].pc = "unlock"
    /\ avarageResMsMutex' = 0
    /\ procs' = [procs EXCEPT ![g].pc = "done"]
    /\ UNCHANGED <<routes, middlewares, started, avarageResMs, totalRequest, startOptimizeAt,
                   totalRequestMutex, served, detached, lats, xpVars>>

\* lines 157-159: both mutexes are released and handle returns
Unlock(g) ==
    /\ procs[g].pc = "unlock"
    /\ avarageResMsMutex' = 0
    /\ totalRequestMutex' = 0
    /\ procs' = [procs EXCEPT ![g].pc = "done"]
    /\ UNCHANGED <<routes, middlewares, started, avarageResMs, totalRequest, startOptimizeAt,
                   served, detached, lats, xpVars>>

(***************************************************************************)
(* The goroutines of the server and of the handlers.                       *)
(***************************************************************************)
Serve(g, reqs, max, els) ==
    \/ \E req \in reqs : Handle(g, req, max)
    \/ RunMiddleware(g)
    \/ ReadMode(g)
    \/ CallHandler(g)
    \/ HandlerReturn(g)
    \/ AsyncHandlerReturn(g)
    \/ LockTotalRequest(g)
    \/ LockAverageResMs(g)
    \/ \E el \in els : UpdateStats(g, el)
    \/ Unlock(g)
    \/ Return(g)

(***************************************************************************)
(* The statistics specification: two goroutines serve GET requests to one  *)
(* route of either mode while the route and a middleware are registered    *)
(* and the threshold is set.                                               *)
(***************************************************************************)
Register ==
    \/ middlewares = <<>> /\ AddMiddleware("m1")
    \/ \E mode \in {Sync, Async} : routes = <<>> /\ MapGet(mode, PingTemplate, NoAuth, "h1")
    \/ \E threshold \in Thresholds : SetOptimizationThreshold(threshold)
    \/ StartHTTPServer

Next ==
    \/ Register
    \/ \E g \in Procs : Serve(g, StatsRequests, MaxRequests, ElapsedValues)
    \/ DetachedHandlerReturn

Spec == Init /\ [][Next]_vars

(***************************************************************************)
(* The router under fair scheduling: one GET route of either mode and a    *)
(* middleware are registered and the server is started; two goroutines     *)
(* serve requests.  The Go scheduler runs every goroutine that can run, so *)
(* a goroutine that holds the count mutex takes its next step (weak        *)
(* fairness: the average's mutex is free whenever it asks for it); a       *)
(* goroutine blocked in totalRequestMutex.Lock gets the mutex if it is     *)
(* free again and again, as sync.Mutex hands it to a waiter that has       *)
(* waited long (strong fairness).  Nothing is assumed of handlers,         *)
(* middlewares or clients.                                                 *)
(***************************************************************************)
FairElapsed == {10}

InitFair ==
    /\ \E mode \in {Sync, Async} :
          routes = <<RouteInfo(mode, RoutePrefix \o PingTemplate, get, NoAuth, "h1")>>
    /\ middlewares = <<"m1">>
    /\ started = TRUE
    /\ avarageResMs = 0
    /\ totalRequest = 0
    /\ startOptimizeAt = DefaultStartOptimizeAt
    /\ totalRequestMutex = 0
    /\ avarageResMsMutex = 0
    /\ served = 0
    /\ detached = 0
    /\ procs = [g \in Procs |-> IdleProc]
    /\ lats = <<>>
    /\ XpIdle

NextFair ==
    \/ \E g \in Procs : Serve(g, StatsRequests, MaxFairRequests, FairElapsed)
    \/ DetachedHandlerReturn

\* the steps of goroutine g once it holds the count mutex, up to its return
SectionStep(g) ==
    \/ LockAverageResMs(g)
    \/ \E el \in FairElapsed : UpdateStats(g, el)
    \/ Unlock(g)
    \/ Return(g)

SectionFairness ==
    \A g \in Procs : SF_vars(LockTotalRequest(g)) /\ WF_vars(SectionStep(g))

SpecFair == InitFair /\ [][NextFair]_vars /\ SectionFairness

(***************************************************************************)
(* The same router late in its life: one Sync GET route and a middleware   *)
(* are registered, the server is started and resetAt requests, each of 0   *)
(* microseconds, have been served and counted under the default threshold  *)
(* (none of them promotes the route: 0 > 0 is false).  The next update     *)
(* resets the counters.  A second route can still be registered.           *)
(***************************************************************************)
InitLate ==
    /\ routes = <<RouteInfo(Sync, RoutePrefix \o PingTemplate, get, NoAuth, "h1")>>
    /\ middlewares = <<"m1">>
    /\ started = TRUE
    /\ avarageResMs = 0
    /\ totalRequest = resetAt
    /\ startOptimizeAt = DefaultStartOptimizeAt
    /\ totalRequestMutex = 0
    /\ avarageResMsMutex = 0
    /\ served = 0
    /\ detached = 0
    /\ procs = [g \in Procs |-> IdleProc]
    /\ lats = [i \in 1..resetAt |-> 0]
    /\ XpIdle

NextLate ==
    \/ \E mode \in {Sync, Async} : Len(routes) < 2 /\ MapPost(mode, PingTemplate, NoAuth, "h2")
    \/ \E threshold \in Thresholds : SetOptimizationThreshold(threshold)
    \/ \E g \in Procs : Serve(g, StatsRequests, MaxLateRequests, ElapsedValues)
    \/ DetachedHandlerReturn

SpecLate == InitLate /\ [][NextLate]_vars

(***************************************************************************)
(* The routing specification: one goroutine serves requests of two methods *)
(* and three paths while routes of every method and middlewares (each      *)
(* function once, in either order) are registered.                         *)
(***************************************************************************)
RegisterRoute ==
    \/ \E f \in MiddlewareFuncs :
          /\ Len(middlewares) < MaxMiddlewares
          /\ \A k \in 1..Len(middlewares) : middlewares[k] # f
          /\ AddMiddleware(f)
    \/ \E i \in RouteInputs :
          /\ Len(routes) < MaxRoutes
          /\ \/ MapGet(i[1], i[2], i[3], i[4])
             \/ MapPost(i[1], i[2], i[3], i[4])
             \/ MapPut(i[1], i[2], i[3], i[4])
             \/ MapDelete(i[1], i[2], i[3], i[4])
    \/ StartHTTPServer

NextRoute ==
    \/ RegisterRoute
    \/ Serve(1, RouteRequests, MaxRouteRequests, RouteElapsed)
    \/ DetachedHandlerReturn

SpecRoute == Init /\ [][NextRoute]_vars

(***************************************************************************)
(* The specification of extractParams alone: it is called once, on any two *)
(* strings of at most MaxLen characters over '{', '}' and a letter, or on  *)
(* the endpoint and the request path of the users route.                   *)
(***************************************************************************)
XpChars == {"{", "}", "a"}
StringsUpTo(n) == UNION {[1..k -> XpChars] : k \in 0..n}
XpInputs == StringsUpTo(MaxLen) \cup {RoutePrefix \o UsersIdTemplate, Users42Path}

InitParams ==
    /\ RouterInit
    /\ xpPath \in XpInputs
    /\ xpLocPath \in XpInputs
    /\ xpOut = [params |-> NilMap, err |-> ErrNil]
    /\ xpDone = FALSE

CallExtractParams ==
    /\ ~xpDone
    /\ xpOut' = extractParams(xpPath, xpLocPath)
    /\ xpDone' = TRUE
    /\ UNCHANGED <<routerVars, xpPath, xpLocPath>>

NextParams == CallExtractParams

SpecParams == InitParams /\ [][NextParams]_vars

(***************************************************************************)
(* Templates and their instances, as the contract of the matcher speaks of *)
(* them (not read from the scanner).                                       *)
(***************************************************************************)
\* every '{' is closed by a '}' before the next '{', and no '}' stands alone
RECURSIVE BracesAlternate(_, _, _)
BracesAlternate(t, i, open) ==
    IF i > Len(t) THEN ~open
    ELSE IF t[i] = "{" THEN ~open /\ BracesAlternate(t, i + 1, TRUE)
    ELSE IF t[i] = "}" THEN open /\ BracesAlternate(t, i + 1, FALSE)
    ELSE BracesAlternate(t, i + 1, open)

WellFormedTemplate(t) == BracesAlternate(t, 1, FALSE)

\* the names between the braces of a well-formed template, in order
RECURSIVE NamesFrom(_, _, _, _)
NamesFrom(t, i, name, names) ==
    IF i > Len(t) THEN names
    ELSE IF t[i] = "{" THEN NamesFrom(t, i + 1, <<>>, names)
    ELSE IF t[i] = "}" THEN NamesFrom(t, i + 1, <<>>, Append(names, name))
    ELSE NamesFrom(t, i + 1, Append(name, t[i]), names)

PlaceholderNames(t) == NamesFrom(t, 1, <<>>, <<>>)

\* the template with its i-th {name} span replaced by vals[i]
RECURSIVE InstFrom(_, _, _, _, _)
InstFrom(t, i, open, vals, out) ==
    IF i > Len(t) THEN out
    ELSE IF t[i] = "{" THEN InstFrom(t, i + 1, TRUE, vals, out \o Head(vals))
    ELSE IF t[i] = "}" THEN InstFrom(t, i + 1, FALSE, Tail(vals), out)
    ELSE IF open THEN InstFrom(t, i + 1, open, vals, out)
    ELSE InstFrom(t, i + 1, open, vals, Append(out, t[i]))

Instantiate(t, vals) == InstFrom(t, 1, FALSE, vals, <<>>)

BraceFree(str) == \A i \in 1..Len(str) : str[i] \notin {"{", "}"}
\* the substrings a placeholder is replaced by
SubstValues == {str \in StringsUpTo(MaxLen) : BraceFree(str)} \cup {<<"4", "2">>}

(***************************************************************************)
(* C2.  For every template T with k placeholders and every path P obtained *)
(* from T by replacing each {name} span with a brace-free substring,       *)
(* extractParams(P, T) succeeds and returns exactly k bindings, the i-th   *)
(* placeholder name mapped to the i-th substituted substring.              *)
(* The code returns the error whenever k > 0: the scan of P finds no       *)
(* braces, hence no tokens.                                                *)
(***************************************************************************)
C2_InstanceBindings ==
    (xpDone /\ WellFormedTemplate(xpLocPath)) =>
        LET names == PlaceholderNames(xpLocPath)
            k == Len(names)
        IN  \A vals \in [1..k -> SubstValues] :
                xpPath = Instantiate(xpLocPath, vals) =>
                    /\ xpOut.err = ErrNil
                    /\ ~xpOut.params.isNil
                    /\ DOMAIN xpOut.params.kv = {names[i] : i \in 1..k}
                    /\ \A i \in 1..k : xpOut.params.kv[names[i]] = vals[i]

(***************************************************************************)
(* C3.  extractParams(P, T) returns an error and a nil map whenever        *)
(* paramExtractAlg yields a different number of tokens for P than for T,   *)
(* and returns bindings without error whenever the two numbers are equal.  *)
(***************************************************************************)
C3_CountMismatch ==
    xpDone =>
        IF Len(paramExtractAlg(xpPath)) # Len(paramExtractAlg(xpLocPath))
        THEN xpOut.err = ErrInvalidParams /\ xpOut.params.isNil
        ELSE xpOut.err = ErrNil /\ ~xpOut.params.isNil

\* a call with more tokens in the path than in the template has failed
C3_Witness ==
    /\ xpDone
    /\ Len(paramExtractAlg(xpPath)) > Len(paramExtractAlg(xpLocPath))
    /\ xpOut.err = ErrInvalidParams

(***************************************************************************)
(* What a call of handle found and did, read off its locals.               *)
(***************************************************************************)
\* the earliest of the routes the call ranged over whose endpoint is the
\* request path (0: none)
EarliestEndpoint(p) ==
    LET hits == {i \in 1..p.nr : routes[i].Endpoint = p.req.Path}
    IN  IF hits = {} THEN 0 ELSE CHOOSE i \in hits : \A j \in hits : i <= j

\* the call went past the method check and extractParams
Dispatched(p) == p.pc \in {"mw", "call", "handler", "lockTotal", "lockAverage", "stats", "unlock"}
                 \/ (p.pc = "done" /\ p.invoked # <<>>)

\* the map {id: "42"}
Id42 == [k \in {<<"i", "d">>} |-> <<"4", "2">>]

(***************************************************************************)
(* C1.  After a GET route is registered with template /users/{id}, a GET   *)
(* of /api/users/42 invokes that route's handler exactly once with the     *)
(* bindings {id: "42"}.                                                    *)
(* The code compares the request path with the endpoint /api/users/{id}    *)
(* for equality, finds no route and answers 404.                           *)
(***************************************************************************)
C1_UsersRouteServes42 ==
    \A g \in Procs :
        LET p == procs[g] IN
        ( /\ p.pc = "done"
          /\ p.req.Method = get
          /\ p.req.Path = Users42Path
          /\ \E i \in 1..p.nr : /\ routes[i].Endpoint = RoutePrefix \o UsersIdTemplate
                                /\ routes[i].Method = get
                                /\ \A j \in 1..(i-1) : routes[j].Endpoint # routes[i].Endpoint )
        => ( /\ Len(p.invoked) = 1
             /\ routes[p.invoked[1]].Endpoint = RoutePrefix \o UsersIdTemplate
             /\ routes[p.invoked[1]].Method = get
             /\ ~p.rqbody.Params.isNil
             /\ p.rqbody.Params.kv = Id42 )

(***************************************************************************)
(* C4.  Route resolution is first-match in registration order with no      *)
(* fallthrough: a request (m, p) is handled solely by the earliest route   *)
(* whose endpoint equals p; if that route's method differs from m the      *)
(* response is 404 and no later route with endpoint p and method m has its *)
(* handler invoked.                                                        *)
(***************************************************************************)
C4_FirstMatchNoFallthrough ==
    \A g \in Procs :
        LET p == procs[g]
            first == EarliestEndpoint(p)
        IN  /\ \A k \in 1..Len(p.invoked) : p.invoked[k] = first
            /\ (p.pc # "idle" /\ first # 0 /\ routes[first].Method # p.req.Method)
                  => /\ p.pc = "done"
                     /\ p.resp.status = StatusNotFound
                     /\ p.invoked = <<>>

\* a request answered 404 although a later route has its path and its method
C4_Witness ==
    \E g \in Procs :
        LET p == procs[g]
            first == EarliestEndpoint(p)
        IN  /\ p.pc = "done"
            /\ first # 0
            /\ routes[first].Method # p.req.Method
            /\ \E j \in (first+1)..p.nr : /\ routes[j].Endpoint = p.req.Path
                                          /\ routes[j].Method = p.req.Method
            /\ p.resp.status = StatusNotFound
            /\ p.invoked = <<>>

(***************************************************************************)
(* C5.  A request whose path equals no registered endpoint and a request   *)
(* whose path equals an endpoint but whose method differs from the first   *)
(* such route's method produce the same response: status 404, empty body.  *)
(***************************************************************************)
C5_SameNotFound ==
    \A g \in Procs :
        LET p == procs[g]
            first == EarliestEndpoint(p)
        IN  (p.pc = "done" /\ (first = 0 \/ routes[first].Method # p.req.Method))
                => p.resp = [status |-> 404, body |-> <<>>]

\* a method mismatch has been answered 404 with an empty body
C5_Witness ==
    \E g \in Procs :
        LET p == procs[g]
            first == EarliestEndpoint(p)
        IN  /\ p.pc = "done"
            /\ first # 0
            /\ routes[first].Method # p.req.Method
            /\ p.resp = [status |-> 404, body |-> <<>>]

(***************************************************************************)
(* C6.  For every dispatched request with N registered middlewares, each   *)
(* middleware is invoked exactly once, in registration order, all N        *)
(* invocations are over before the route's handler starts, and the handler *)
(* is then started exactly once.                                           *)
(***************************************************************************)
C6_MiddlewareThenHandler ==
    \A g \in Procs :
        LET p == procs[g]
            registered == SubSeq(middlewares, 1, p.nm)
        IN  /\ Dispatched(p) =>
                /\ \A k \in 1..Len(p.mwDone) : p.mwDone[k] = registered[k]
                /\ Len(p.mwDone) <= p.nm
                /\ Len(p.invoked) <= 1
            /\ p.invoked # <<>> => p.mwDone = registered
            /\ (Dispatched(p) /\ p.pc \notin {"mw", "call"}) => Len(p.invoked) = 1

\* two different middlewares have run in order and the handler has been started once
C6_Witness ==
    \E g \in Procs :
        LET p == procs[g] IN
        /\ p.pc = "done"
        /\ p.nm = 2
        /\ middlewares[1] # middlewares[2]
        /\ p.mwDone = SubSeq(middlewares, 1, 2)
        /\ Len(p.invoked) = 1

(***************************************************************************)
(* The step of goroutine g that is its statistics update.                  *)
(***************************************************************************)
UpdateStep(g) == procs[g].pc = "stats" /\ procs'[g].pc = "unlock"

\* g's request was called inline on a route that is still Sync, every other
\* goroutine is idle (the requests come one after the other) and the history
\* since the counters were zero is as long as the count
SequentialSyncUpdate(g) ==
    /\ UpdateStep(g)
    /\ procs[g].kind = "sync"
    /\ routes[procs[g].v].Mode = Sync
    /\ \A h \in Procs \ {g} : procs[h].pc = "idle"
    /\ Len(lats) = totalRequest

(***************************************************************************)
(* C7, as claimed.  With the threshold set to T and statistics starting at *)
(* zero, the (T+1)-th sequential synchronous request to a Sync route whose *)
(* elapsed time exceeds the running average of the prior T requests makes  *)
(* the route Async during its statistics update.                           *)
(* The code promotes only when totalRequest > startOptimizeAt, and the     *)
(* (T+1)-th update finds totalRequest = T.                                 *)
(***************************************************************************)
C7_PromotedByRequestTPlus1 ==
    [][\A g \in Procs :
          ( /\ SequentialSyncUpdate(g)
            /\ totalRequest = startOptimizeAt
            /\ procs'[g].elapsed > avarageResMs )
          => routes'[procs[g].v].Mode = Async]_vars

(***************************************************************************)
(* C7, amended.  It is the (T+2)-th such request, whose elapsed time       *)
(* exceeds the running average of the prior T+1 requests, that makes the   *)
(* route Async during its statistics update, provided neither counter      *)
(* equals resetAt at that update.                                          *)
(***************************************************************************)
C7_PromotedByRequestTPlus2 ==
    [][\A g \in Procs :
          ( /\ SequentialSyncUpdate(g)
            /\ totalRequest = startOptimizeAt + 1
            /\ totalRequest # resetAt /\ avarageResMs # resetAt
            /\ procs'[g].elapsed > avarageResMs )
          => routes'[procs[g].v].Mode = Async]_vars

\* the update of the (T+2)-th request, all of them counted since zero, has
\* just made the route of an inline call Async
C7_Witness ==
    \E g \in Procs :
        /\ procs[g].pc = "unlock"
        /\ procs[g].kind = "sync"
        /\ routes[procs[g].v].Mode = Async
        /\ totalRequest = startOptimizeAt + 2
        /\ served = totalRequest
        /\ Len(lats) = totalRequest
        /\ procs[g].elapsed > avarageResMs - (procs[g].elapsed \div totalRequest)

(***************************************************************************)
(* C8.  A route's mode is one-directional: whatever the interleaving of    *)
(* registrations, dispatches, statistics updates and counter resets, a     *)
(* route whose mode is Async (registered so or promoted) is never Sync     *)
(* again.                                                                  *)
(***************************************************************************)
C8_NoDemotion ==
    [][\A i \in 1..Len(routes) : routes[i].Mode = Async => routes'[i].Mode = Async]_vars

\* the route registered Sync has been promoted, a second route has been
\* registered, the counters have been reset and updated again
C8_Witness ==
    /\ routes[1].Mode = Async
    /\ Len(routes) = 2
    /\ totalRequest > 1
    /\ totalRequest < resetAt

(***************************************************************************)
(* C9, as claimed.  Each statistics update with n requests counted before  *)
(* it and latency elapsed sets the count to n+1 and increases the running  *)
(* average by the truncated quotient elapsed / (n+1).                      *)
(* The update that finds totalRequest = resetAt sets the count to 1.       *)
(***************************************************************************)
C9_EveryUpdateIncrements ==
    [][\A g \in Procs :
          UpdateStep(g) =>
              /\ totalRequest' = totalRequest + 1
              /\ avarageResMs' = avarageResMs + (procs'[g].elapsed \div (totalRequest + 1))]_vars

(***************************************************************************)
(* C9, amended.  A statistics update that finds n requests counted and     *)
(* neither counter equal to resetAt sets the count to n+1 and increases    *)
(* the running average by the truncated quotient elapsed / (n+1); one that *)
(* finds a counter equal to resetAt leaves the count 1 and the average     *)
(* elapsed.  The result is not the mean: from zero, latencies 10, 20, 30   *)
(* leave the running average at 10/1 + 20/2 + 30/3 = 30 (the mean is 20).  *)
(***************************************************************************)
C9_UpdateIncrementsUnlessReset ==
    /\ [][\A g \in Procs :
            UpdateStep(g) =>
                IF totalRequest = resetAt \/ avarageResMs = resetAt
                THEN /\ totalRequest' = 1
                     /\ avarageResMs' = procs'[g].elapsed
                ELSE /\ totalRequest' = totalRequest + 1
                     /\ avarageResMs' = avarageResMs + (procs'[g].elapsed \div (totalRequest + 1))]_vars
    /\ [](lats = <<10, 20, 30>> => (totalRequest = 3 /\ avarageResMs = 30))

\* the three latencies have been added up from zero
C9_Witness ==
    /\ lats = <<10, 20, 30>>
    /\ totalRequest = 3
    /\ avarageResMs = 30
    /\ (10 + 20 + 30) \div 3 = 20

(***************************************************************************)
(* C10.  Handler invocation follows the route's mode: for a route in Async *)
(* mode handle goes on to its statistics update and returns without        *)
(* waiting for the handler (no step of it needs the handler to have        *)
(* returned); for a route in Sync mode handle performs its statistics      *)
(* update and returns only after the handler has returned.                 *)
(***************************************************************************)
C10_ModeDecidesWaiting ==
    \A g \in Procs :
        LET p == procs[g] IN
        /\ (p.kind = "sync" /\ p.pc \in {"lockTotal", "lockAverage", "stats", "unlock", "done"})
              => p.handler = "returned"
        /\ (p.kind = "sync" /\ p.handler = "running") => p.pc = "handler"
        /\ p.kind = "async" =>
              /\ p.pc \in {"lockTotal", "lockAverage", "stats", "unlock", "done"}
              /\ (p.pc = "lockTotal" /\ totalRequestMutex = 0) => ENABLED LockTotalRequest(g)
              /\ (p.pc = "lockAverage" /\ avarageResMsMutex = 0) => ENABLED LockAverageResMs(g)
              /\ p.pc = "stats" => ENABLED (\E el \in ElapsedValues : UpdateStats(g, el))
              /\ p.pc = "unlock" => ENABLED Unlock(g)
              /\ p.pc = "done" => ENABLED Return(g)

\* a call of handle on an Async route has updated the statistics and returned
\* while its handler is still running
C10_Witness ==
    \E g \in Procs :
        /\ procs[g].pc = "done"
        /\ procs[g].kind = "async"
        /\ procs[g].handler = "running"
        /\ procs[g].invoked # <<>>

(***************************************************************************)
(* The statistics section as the claims about it speak of it.              *)
(***************************************************************************)
\* goroutine g is between its two Lock calls' return and its Unlock calls
InSection(g) == procs[g].pc \in {"stats", "unlock"}

\* the sum of the increments seq[i] / i, each truncated, for i ascending
RECURSIVE SumIncrements(_, _)
SumIncrements(seq, i) ==
    IF i > Len(seq) THEN 0 ELSE (seq[i] \div i) + SumIncrements(seq, i + 1)

(***************************************************************************)
(* C11.  Under any interleaving of concurrent dispatches at most one       *)
(* dispatch is in the statistics read-modify-write, and it holds both      *)
(* mutexes; no update is lost: after k updates with no reset, totalRequest *)
(* is k and the running average is the sum of the k increments             *)
(* elapsed_i / i in the order in which the updates held the locks.         *)
(***************************************************************************)
C11_ExclusiveUpdates ==
    /\ \A g, h \in Procs : (InSection(g) /\ InSection(h)) => g = h
    /\ \A g \in Procs : InSection(g) => (totalRequestMutex = g /\ avarageResMsMutex = g)
    /\ totalRequest = Len(lats)
    /\ avarageResMs = SumIncrements(lats, 1)

\* one goroutine has made the second update while the other one waits for
\* the first mutex
C11_Witness ==
    \E g, h \in Procs :
        /\ g # h
        /\ procs[g].pc = "unlock"
        /\ procs[h].pc = "lockTotal"
        /\ totalRequestMutex = g
        /\ totalRequest = 2
        /\ lats[1] # lats[2]
        /\ avarageResMs = lats[1] + (lats[2] \div 2)

(***************************************************************************)
(* C12.  Latency statistics are recorded only for synchronous dispatches:  *)
(* no step of a dispatch whose handler was started with `go` changes       *)
(* totalRequest or the running average, and a route is promoted only by a  *)
(* dispatch whose handler was called inline and has returned.              *)
(* The code runs lines 138-158 after either branch of the mode test, so an *)
(* asynchronous dispatch is counted and averaged as well.                  *)
(***************************************************************************)
C12_StatisticsOnlyForSync ==
    [][\A g \in Procs :
          procs'[g] # procs[g] =>
              /\ procs[g].kind = "async" => UNCHANGED <<totalRequest, avarageResMs>>
              /\ routes' # routes /\ Len(routes') = Len(routes) =>
                    (procs[g].kind = "sync" /\ procs[g].handler = "returned")]_vars

(***************************************************************************)
(* C13.  Reset policy: an update that finds the request count or the       *)
(* running average at or above resetAt zeroes both before the promotion    *)
(* check and the increment (so it leaves the count 1 and the average       *)
(* elapsed, and promotes as for zero counters); neither counter is ever    *)
(* above resetAt.                                                          *)
(***************************************************************************)
C13_ResetAtThreshold ==
    /\ [][\A g \in Procs :
            (UpdateStep(g) /\ (totalRequest >= resetAt \/ avarageResMs >= resetAt)) =>
                LET i  == procs[g].v
                    el == procs'[g].elapsed
                IN  /\ totalRequest' = 1
                    /\ avarageResMs' = el
                    /\ routes'[i].Mode =
                          IF 0 > startOptimizeAt /\ el > 0 /\ routes[i].Mode # Async
                          THEN Async ELSE routes[i].Mode]_vars
    /\ [](totalRequest <= resetAt /\ avarageResMs <= resetAt)

\* the update that found totalRequest = resetAt has left the count 1, the
\* average its own latency and the route Sync
C13_Witness ==
    /\ totalRequest = 1
    /\ avarageResMs = 30
    /\ lats = <<30>>
    /\ served >= 1
    /\ routes[1].Mode = Sync

(***************************************************************************)
(* The contents of the {...} spans of a string, as the contract of the     *)
(* scanner states them (not read from the scanner): a span opens at a '{', *)
(* is restarted by another '{' and closes at the next '}'; a character     *)
(* outside every span belongs to no token and a '}' outside a span closes  *)
(* nothing.                                                                *)
(***************************************************************************)
RECURSIVE SpansFrom(_, _, _, _, _)
SpansFrom(str, i, open, buf, out) ==
    IF i > Len(str) THEN out
    ELSE IF str[i] = "{" THEN SpansFrom(str, i + 1, TRUE, <<>>, out)
    ELSE IF str[i] = "}" THEN (IF open THEN SpansFrom(str, i + 1, FALSE, <<>>, Append(out, buf))
                                       ELSE SpansFrom(str, i + 1, FALSE, <<>>, out))
    ELSE IF open THEN SpansFrom(str, i + 1, open, Append(buf, str[i]), out)
    ELSE SpansFrom(str, i + 1, open, buf, out)

SpanContents(str) == SpansFrom(str, 1, FALSE, <<>>, <<>>)

(***************************************************************************)
(* C14.  For every input string paramExtractAlg returns only the contents  *)
(* of the {...} spans: each token is the text strictly between a '{' and   *)
(* the next '}' after it, and no character outside every span is in any    *)
(* token, also when a '}' is unmatched or repeated.                        *)
(* The code appends every ordinary character to the buffer, inside a span  *)
(* or not, and every '}' appends the buffer: "a}" yields the token "a".    *)
(***************************************************************************)
C14_OnlySpanContents ==
    xpDone =>
        /\ paramExtractAlg(xpPath) = SpanContents(xpPath)
        /\ paramExtractAlg(xpLocPath) = SpanContents(xpLocPath)

(***************************************************************************)
(* C15.  For every dispatched request the request context handed to the    *)
(* middlewares and the handler carries the bytes of the request's body in  *)
(* JsonData, the extracted bindings in Params and no claims.               *)
(* The code reads the body into rqbody.JsonData while that slice is nil:   *)
(* Read fills at most len(buf) = 0 bytes, so JsonData stays empty.         *)
(***************************************************************************)
C15_ContextCarriesBody ==
    \A g \in Procs :
        LET p == procs[g] IN
        Dispatched(p) =>
            /\ p.rqbody.JsonData = p.req.Body
            /\ p.rqbody.Params = extractParams(p.req.Path, routes[p.v].Endpoint).params
            /\ p.rqbody.Claims.kv = <<>>

(***************************************************************************)
(* C16.  Under concurrent dispatches to one route, once the route's mode   *)
(* is Async every handler invocation of that route that begins from then   *)
(* on is started with `go`; none is started inline.                        *)
(* The code reads v.Mode at line 132 without a lock: a goroutine that has  *)
(* read Sync starts the handler inline after another goroutine's update    *)
(* has made the route Async.                                               *)
(***************************************************************************)
C16_AsyncAfterPromotion ==
    [][\A g \in Procs :
          ( /\ procs[g].pc = "call"
            /\ procs'[g].pc # "call"
            /\ routes[procs[g].v].Mode = Async )
          => procs'[g].kind = "async"]_vars

(***************************************************************************)
(* C17.  handle calls extractParams only on a request path that equals the *)
(* route's endpoint, so for every set of routes and every request the 400  *)
(* "invalid URL params" response is never written, and every binding of a  *)
(* dispatch maps a token of the endpoint to the token at the same position *)
(* of the same string: each placeholder name to itself.                    *)
(***************************************************************************)
C17_NoBadRequest ==
    \A g \in Procs :
        LET p == procs[g] IN
        /\ p.resp.status # 400
        /\ p.resp.body # ErrInvalidParams
        /\ Dispatched(p) =>
              LET toks == SpanContents(routes[p.v].Endpoint) IN
              /\ p.req.Path = routes[p.v].Endpoint
              /\ ~p.rqbody.Params.isNil
              /\ DOMAIN p.rqbody.Params.kv = {toks[k] : k \in 1..Len(toks)}
              /\ \A name \in DOMAIN p.rqbody.Params.kv : p.rqbody.Params.kv[name] = name

\* a request for the users endpoint itself has been dispatched with {id: "id"}
C17_Witness ==
    \E g \in Procs :
        LET p == procs[g] IN
        /\ p.pc = "done"
        /\ p.invoked # <<>>
        /\ p.req.Path = RoutePrefix \o UsersIdTemplate
        /\ p.rqbody.Params.kv = [k \in {<<"i", "d">>} |-> <<"i", "d">>]

(***************************************************************************)
(* C18.  A request answered 404 (no endpoint equals its path, or the first *)
(* route with its path has another method) invokes no middleware and no    *)
(* handler, and from its arrival to its return the route table, every      *)
(* route's mode, totalRequest and the running average stay as they were.   *)
(***************************************************************************)
C18_NotFoundChangesNothing ==
    /\ [](\A g \in Procs :
            LET p == procs[g]
                first == EarliestEndpoint(p)
            IN  ( \/ p.resp.status = 404
                  \/ (p.pc # "idle" /\ (first = 0 \/ routes[first].Method # p.req.Method)) )
                => /\ p.pc = "done"
                   /\ p.resp.status = 404
                   /\ p.mwDone = <<>>
                   /\ p.invoked = <<>>
                   /\ p.handler = "none")
    /\ [][\A g \in Procs :
            (procs'[g] # procs[g] /\ (procs[g].resp.status = 404 \/ procs'[g].resp.status = 404))
            => UNCHANGED <<routes, middlewares, totalRequest, avarageResMs, detached>>]_vars

\* a method mismatch has been answered 404 with a middleware registered:
\* handle is about to return and has called neither it nor a handler
C18_Witness ==
    \E g \in Procs :
        LET p == procs[g]
            first == EarliestEndpoint(p)
        IN  /\ p.pc = "done"
            /\ p.resp.status = 404
            /\ first # 0
            /\ p.nm = 0 /\ middlewares # <<>>
            /\ p.mwDone = <<>>
            /\ p.invoked = <<>>

(***************************************************************************)
(* C19.  The statistics section is deadlock-free: the count mutex is taken *)
(* before the average's mutex by every dispatch and both are released on   *)
(* the only path through the section, so under fair scheduling every       *)
(* dispatch that reaches the section takes both locks, makes its update    *)
(* and returns, however many dispatches run concurrently.                  *)
(***************************************************************************)
C19_SectionTerminates ==
    /\ \A g \in Procs : (procs[g].pc = "lockTotal") ~> (procs[g].pc = "stats")
    /\ \A g \in Procs : (procs[g].pc = "stats") ~> (procs[g].pc = "idle")
    /\ [](\A g \in Procs : procs[g].pc = "lockAverage" => totalRequestMutex = g)
    /\ [](\A g \in Procs : procs[g].pc \in {"idle", "mw", "call", "handler", "lockTotal", "done"}
                                => (totalRequestMutex # g /\ avarageResMsMutex # g))

\* one goroutine is blocked on the count mutex while the other, which has
\* made the second update, still holds both
C19_Witness ==
    \E g, h \in Procs :
        /\ g # h
        /\ procs[g].pc = "unlock"
        /\ procs[h].pc = "lockTotal"
        /\ totalRequestMutex = g
        /\ avarageResMsMutex = g
        /\ ~ENABLED LockTotalRequest(h)
        /\ totalRequest = 2

=============================================================================
